---- MODULE Spec2Model ----
(***************************************************************************)
(* A model of the Conductor launchers (src/ProJect): four Tkinter          *)
(* programs that run whitelisted commands on worker threads.               *)
(*                                                                         *)
(*   lineups_gui.py      ("lineups") lineups of whitelisted actions        *)
(*   lineuppower_gui.py  ("power")   the same, every action a PowerShell   *)
(*                                   command                               *)
(*   jarvis_runner2.py   ("jarvis2") one whitelisted command per click     *)
(*   jarvis_runner.py    ("jarvis")  one CMD command per click             *)
(*                                                                         *)
(* A string that the code inspects for path separators is a sequence of    *)
(* lexemes, each a separator ("/" or "\\") or a separator-free chunk, so   *)
(* that `os.path.sep in s` is a test on the sequence. A command is a       *)
(* sequence of such strings.                                               *)
(*                                                                         *)
(* Every thread of the program is one slot of th. A step of a thread is    *)
(* its local computation up to and including its next interaction with     *)
(* the outside of the thread: one append_log call, one dialog, one         *)
(* Thread.start, one Popen; a line read from the child's pipe is one step  *)
(* with the append_log of that line, and the end of the child's output is  *)
(* one step with the wait for its exit.                                    *)
(***************************************************************************)
EXTENDS Integers, Sequences, FiniteSets, TLC

\* ------------------------------------------------------------- bounds
\* Thread slots: every Thread(...) the program creates takes a fresh one.
MaxThreads == 4
\* Output lines that the child processes of one run print, all together.
MaxLines == 2
\* Exceptions that the operating system raises in one run, all together.
MaxFaults == 1
\* Commands that one run of jarvis_runner / jarvis_runner2 executes.
MaxClicks == 1
\* Writers and texts per writer of the append_log interleaving model.
MaxWriters == 2
MaxTexts == 2
\* Calls of the resolver on one table entry, from as many threads.
MaxResolves == 2

Threads == 1..MaxThreads
UI == 0

\* ------------------------------------------------------------- strings
Str(chunk) == <<chunk>>
None == <<>>

\* os.path.sep
sep(osname) == IF osname = "nt" THEN "\\" ELSE "/"

\* `os.path.sep in s`
HasSep(s, osname) == \E i \in 1..Len(s) : s[i] = sep(osname)

\* os.path.expanduser("~/Downloads")
Downloads == <<"~", "/", "Downloads">>

\* ------------------------------------------------------------- tables
WIFI_INTERFACE == Str("Wi-Fi")

VSCodeFallback ==
    <<"C:", "\\", "Users", "\\", "you", "\\", "AppData", "\\", "Local", "\\",
      "Programs", "\\", "Microsoft VS Code", "\\", "Code.exe">>

SpotifyFallback ==
    <<"C:", "\\", "Users", "\\", "hp", "\\", "AppData", "\\", "Local", "\\",
      "Microsoft", "\\", "WindowsApps", "\\", "Spotify.exe">>

Netsh(admin) ==
    <<Str("netsh"), Str("interface"), Str("set"), Str("interface"),
      WIFI_INTERFACE, Str(admin)>>

\* lineups_gui.ACTION_WHITELIST
ACTION_WHITELIST ==
    [open_vscode |->
        [label |-> "Open VS Code", type |-> "exe", cmd |-> <<Str("code")>>,
         fallback |-> VSCodeFallback, dangerous |-> FALSE],
     open_downloads |->
        [label |-> "Open Downloads folder", type |-> "opener",
         cmd |-> <<Downloads>>, fallback |-> None, dangerous |-> FALSE],
     open_spotify |->
        [label |-> "Open Spotify", type |-> "exe", cmd |-> <<Str("spotify")>>,
         fallback |-> SpotifyFallback, dangerous |-> FALSE],
     wifi_on |->
        [label |-> "Turn ON Wi-Fi", type |-> "cmd",
         cmd |-> Netsh("admin=enabled"), fallback |-> None,
         dangerous |-> TRUE],
     wifi_off |->
        [label |-> "Turn OFF Wi-Fi", type |-> "cmd",
         cmd |-> Netsh("admin=disabled"), fallback |-> None,
         dangerous |-> TRUE],
     open_notepad |->
        [label |-> "Open Notepad", type |-> "exe", cmd |-> <<Str("notepad")>>,
         fallback |-> None, dangerous |-> FALSE],
     open_taskmgr |->
        [label |-> "Open Task Manager", type |-> "cmd",
         cmd |-> <<Str("taskmgr")>>, fallback |-> None, dangerous |-> FALSE]]

\* The lineup table with one member id misspelt.
LINEUPS_Misspelt ==
    [Lineup1 |-> <<"open_vscode", "open_downloads", "wifi_on", "open_spotify">>,
     Lineup2 |-> <<"open_notepad", "open_taskmgrr", "wifi_off">>]

\* lineups_gui.LINEUPS
LINEUPS ==
    [Lineup1 |-> <<"open_vscode", "open_downloads", "wifi_on", "open_spotify">>,
     Lineup2 |-> <<"open_notepad", "open_taskmgr", "wifi_off">>]

\* lineuppower_gui.ACTION_WHITELIST: every command is one PowerShell string.
PS_ACTION_WHITELIST ==
    [open_vscode |->
        [label |-> "Open VS Code", type |-> "ps",
         cmd |-> Str("Start-Process code"), dangerous |-> FALSE],
     open_downloads |->
        [label |-> "Open Downloads", type |-> "ps",
         cmd |-> Str("Start-Process ") \o Downloads, dangerous |-> FALSE],
     open_spotify |->
        [label |-> "Open Spotify", type |-> "ps",
         cmd |-> Str("Start-Process spotify"), dangerous |-> FALSE],
     wifi_on |->
        [label |-> "Turn ON Wi-Fi", type |-> "ps",
         cmd |-> Str("Set-NetAdapter -Name ") \o WIFI_INTERFACE
                    \o Str(" -Enabled $true"),
         dangerous |-> TRUE],
     wifi_off |->
        [label |-> "Turn OFF Wi-Fi", type |-> "ps",
         cmd |-> Str("Set-NetAdapter -Name ") \o WIFI_INTERFACE
                    \o Str(" -Enabled $false"),
         dangerous |-> TRUE],
     open_notepad |->
        [label |-> "Open Notepad", type |-> "ps",
         cmd |-> Str("Start-Process notepad"), dangerous |-> FALSE],
     open_taskmgr |->
        [label |-> "Open Task Manager", type |-> "ps",
         cmd |-> Str("Start-Process taskmgr"), dangerous |-> FALSE]]

\* lineuppower_gui.LINEUPS
PS_LINEUPS ==
    [Lineup1 |-> <<"open_vscode", "open_downloads", "wifi_on", "open_spotify">>,
     Lineup2 |-> <<"open_notepad", "open_taskmgr", "wifi_off">>]

\* jarvis_runner2.COMMAND_WHITELIST
SpotifyExe ==
    <<"C:", "\\", "Users", "\\", "you", "\\", "AppData", "\\", "Roaming", "\\",
      "Spotify", "\\", "Spotify.exe">>

COMMAND_WHITELIST ==
    [OpenVSCode |->
        [type |-> "exe", cmd |-> <<Str("code")>>, requires_confirm |-> FALSE],
     OpenSpotify |->
        [type |-> "exe", cmd |-> <<SpotifyExe>>, requires_confirm |-> FALSE],
     ListProjects |->
        [type |-> "powershell",
         cmd |-> <<Str("powershell"), Str("-NoProfile"), Str("-NonInteractive"),
                   Str("-Command"), Str("Get-ChildItem ... | ConvertTo-Json")>>,
         requires_confirm |-> FALSE],
     CleanupTemp |->
        [type |-> "powershell",
         cmd |-> <<Str("powershell"), Str("-NoProfile"), Str("-Command"),
                   Str("Remove-Item ... -Recurse -Force")>>,
         requires_confirm |-> TRUE],
     OpenDownloads |->
        [type |-> "opener", cmd |-> <<Downloads>>, requires_confirm |-> FALSE]]

\* The table is there to be edited ("Edit COMMAND_WHITELIST to add/remove
\* commands"): an entry added by hand that has no "type" key.
AddedCommands ==
    [WhoAmI |-> [cmd |-> <<Str("whoami")>>, requires_confirm |-> FALSE]]

\* The table jarvis_runner2 runs with: the shipped entries and the added one.
CommandTable == COMMAND_WHITELIST @@ AddedCommands

\* jarvis_runner.COMMANDS
Cmd(c) == <<Str("cmd"), Str("/c"), Str(c)>>

COMMANDS ==
    [ShowFiles |-> Cmd("dir"),
     ShowNetworkInfo |-> Cmd("ipconfig"),
     ShowCurrentUser |-> Cmd("whoami"),
     ListTasks |-> Cmd("tasklist"),
     ShowSystemInfo |-> Cmd("systeminfo")]

\* Lineup tables a run may be configured with besides the shipped one (the
\* CONFIG section is there to be edited): lineups of the whitelisted
\* actions that also name an id missing from the whitelist, a dangerous
\* action alone, an opener, an executable with a fallback.
LineupConfigs ==
    {[L1 |-> <<"open_taskmgr", "missing_id", "open_notepad">>],
     [L1 |-> <<"wifi_off">>],
     [L1 |-> <<"open_downloads", "wifi_on">>],
     [L1 |-> <<"missing_id", "open_vscode">>, L2 |-> <<>>]}

PsLineupConfigs ==
    {[L1 |-> <<"open_taskmgr", "missing_id", "open_notepad">>],
     [L1 |-> <<"wifi_off">>],
     [L1 |-> <<"missing_id", "wifi_on">>]}

\* ------------------------------------------------------------- state
VARIABLES
    app,        \* which of the four programs runs
    DRY_RUN,    \* the CONFIG flag of that program
    platform,   \* the host, as far as the program has looked at it
    lineups,    \* the LINEUPS table of that program
    th,         \* the threads: one record per slot
    nthreads,   \* slots taken so far
    uiPc,       \* the Tk main thread: "idle", or inside a modal dialog
    uiSel,      \* jarvis2: the name on_execute is confirming
    status,     \* jarvis2: the text of the status label
    wstate,     \* append_log model: the widget's state option
    wtext,      \* append_log model: the texts the widget holds
    wpc,        \* append_log model: each writer's place in append_log
    wdone,      \* append_log model: append_log calls each writer completed
    rmeta,      \* resolver model: the table entry handed to the resolver
    renv,       \* resolver model: what PATH and the filesystem hold
    rout        \* resolver model: what each resolver call returned

vars == <<app, DRY_RUN, platform, lineups, th, nthreads, uiPc, uiSel, status,
          wstate, wtext, wpc, wdone, rmeta, renv, rout>>

resVars == <<rmeta, renv, rout>>

sinkVars == <<wstate, wtext, wpc, wdone>>
envVars == <<app, DRY_RUN, platform, lineups>>
progVars == <<app, DRY_RUN, platform, lineups, th, nthreads, uiPc, uiSel,
              status>>
uiVars == <<uiPc, uiSel, status>>

\* A slot no thread has taken yet.
FreeThread ==
    [kind |-> "free", pc |-> "none", arg |-> "", host |-> "own",
     parent |-> UI, answer |-> "none", prompts |-> 0, cmd |-> <<>>,
     launched |-> <<>>, opened |-> <<>>, fault |-> "none", code |-> -1,
     nread |-> 0, out |-> <<>>, i |-> 0, threads |-> <<>>]

Rec(tag, v) == [tag |-> tag, v |-> v]

\* The records thread t has passed to the log so far with one of `tags`.
Count(t, tags) ==
    Cardinality({k \in 1..Len(th[t].out) : th[t].out[k].tag \in tags})

Has(t, tag) == Count(t, {tag}) > 0

RECURSIVE SumRead(_)
SumRead(n) == IF n = 0 THEN 0 ELSE th[n].nread + SumRead(n - 1)

LinesUsed == SumRead(MaxThreads)
\* The exceptions a launch, an open and a read of the pipe can raise.
LaunchFaults == {"FileNotFoundError", "PermissionError", "OSError"}
ReadFaults == {"UnicodeDecodeError"}
ExitCodes == {0, 1}

FaultsUsed ==
    Cardinality({t \in Threads : th[t].fault \in LaunchFaults \cup ReadFaults})

\* ------------------------------------------------------------- threads
\* The host is Windows ("nt"), Linux or macOS ("linux", "darwin": os.name is
\* "posix"). It never changes, and the program learns it in two reads,
\* os.name (or os.path.sep) and os.uname().sysname: platform is "unknown"
\* until the first and "posix" until the second, so that a run that never
\* reads it is one run and not three.
OsNames(p) == IF p = "unknown" THEN {"nt", "posix"} ELSE {p}

SysNames(p) == IF p = "posix" THEN {"linux", "darwin"} ELSE {p}

\* os.name of a host
osname(p) == IF p = "nt" THEN "nt" ELSE "posix"

\* A thread made with host "caller" would run inside the call that made
\* it: the caller goes on only when it has ended.
Returned(caller) ==
    \A t \in Threads :
        (th[t].kind # "free" /\ th[t].parent = caller /\ th[t].host = "caller")
            => th[t].pc = "done"

\* Thread(target=...).run() in place of .start(): the target runs inside
\* the call.
NewThreadRunInline(kind, arg, parent) ==
    [FreeThread EXCEPT !.kind = kind, !.pc = "begin", !.arg = arg,
                       !.host = "caller", !.parent = parent]

\* threading.Thread(target=..., daemon=True).start(): the target runs on a
\* thread of its own.
NewThread(kind, arg, parent) ==
    [FreeThread EXCEPT !.kind = kind, !.pc = "begin", !.arg = arg,
                       !.host = "own", !.parent = parent]

\* The step of thread t is taken by a thread that is free to take it.
Runs(t, kind, pc) ==
    /\ th[t].kind = kind
    /\ th[t].pc = pc
    /\ Returned(t)

Emit(r, tag, v) == [r EXCEPT !.out = Append(@, Rec(tag, v))]

Set(t, r) == th' = [th EXCEPT ![t] = r]

LineupApp == app \in {"lineups", "power"}

\* ------------------------------------------------------------- resolver
\* shutil.which(base): the path found on PATH, or None.
WhichPath(base, osn) ==
    IF osn = "nt"
    THEN <<"C:", "\\", "Windows", "\\", "System32", "\\">> \o base
            \o Str(".EXE")
    ELSE <<"/", "usr", "/", "bin", "/">> \o base

WhichResults(base, osn) == {None, WhichPath(base, osn)}

\* The resolver with its two attempts in the other order: the fallback
\* path is tried before PATH.
resolve_exec_cmd_FallbackFirst(meta, osn, found, exists) ==
    IF meta.type = "exe"
    THEN LET base == meta.cmd[1] IN
         IF meta.fallback # None /\ exists
         THEN <<meta.fallback>> \o Tail(meta.cmd)
         ELSE IF ~HasSep(base, osn) /\ found # None
              THEN <<found>> \o Tail(meta.cmd)
              ELSE meta.cmd
    ELSE meta.cmd

\* lineups_gui.resolve_exec_cmd, with the two answers of the environment
\* it asks for: found = shutil.which(base), exists = os.path.exists(fallback).
resolve_exec_cmd(meta, osn, found, exists) ==
    IF meta.type = "exe"
    THEN LET base == meta.cmd[1] IN
         IF ~HasSep(base, osn) /\ found # None
         THEN <<found>> \o Tail(meta.cmd)
         ELSE IF meta.fallback # None /\ exists
              THEN <<meta.fallback>> \o Tail(meta.cmd)
              ELSE meta.cmd
    ELSE meta.cmd

\* lineuppower_gui: the PowerShell command line built for an action.
ps_cmd(meta) ==
    <<Str("powershell"), Str("-NoProfile"), Str("-ExecutionPolicy"),
      Str("Bypass"), Str("-Command"), meta.cmd>>

\* ------------------------------------------------------------- the gate
Whitelist == IF app = "power" THEN PS_ACTION_WHITELIST ELSE ACTION_WHITELIST

\* meta = ACTION_WHITELIST.get(action_id); `not meta`
Known(id) == id \in DOMAIN Whitelist

\* The gate without its test: every action asks for confirmation.
NeedsConfirmAlways(meta) == TRUE

\* The gate reading a key the table does not have: .get gives its default.
NeedsConfirmDefault(meta) == FALSE

\* meta.get("dangerous", False)
NeedsConfirm(meta) == meta.dangerous

\* `if confirmed:` in place of `if not confirmed:`.
DeclinedInverted(answer) == answer = "yes"

\* `if not confirmed: ... return`
Declined(answer) == answer # "yes"

RejectTag == IF app = "power" THEN "INVALID ACTION" ELSE "REJECTED"

\* ------------------------------------------------------------- UI thread
\* The Tk main thread runs one handler at a time, and none while a modal
\* dialog of its own is open.
UiIdle == uiPc = "idle" /\ Returned(UI)

\* The threads that the run_lineup calls under way have yet to start.
RECURSIVE Reserved(_)
Reserved(n) ==
    IF n = 0 THEN 0
    ELSE Reserved(n - 1) +
         (IF th[n].kind = "lineup" /\ th[n].pc # "done"
          THEN Len(lineups[th[n].arg]) - Len(th[n].threads)
          ELSE 0)

\* on_run_lineup / execute with nothing selected: showinfo, return.
OnRunLineupNoSelection ==
    /\ LineupApp
    /\ UiIdle
    /\ UNCHANGED vars

\* on_run_lineup / execute: start run_lineup on a thread of its own.
OnRunLineup(name) ==
    /\ LineupApp
    /\ UiIdle
    /\ nthreads + Reserved(MaxThreads) + 1 + Len(lineups[name]) <= MaxThreads
    /\ th' = [th EXCEPT ![nthreads + 1] = NewThread("lineup", name, UI)]
    /\ nthreads' = nthreads + 1
    /\ UNCHANGED <<envVars, uiVars, sinkVars, resVars>>

\* ------------------------------------------------------------- run_lineup
\* actions = LINEUPS.get(lineup_name, []); the heading.
LineupBegin(t) ==
    /\ LineupApp
    /\ Runs(t, "lineup", "begin")
    /\ Set(t, [Emit(th[t], "LINEUP", th[t].arg) EXCEPT !.pc = "loop", !.i = 1])
    /\ UNCHANGED <<envVars, nthreads, uiVars, sinkVars, resVars>>

\* The loop with `if act not in ACTION_WHITELIST: break` at its head.
LineupStartBreaks(t) ==
    /\ LineupApp
    /\ Runs(t, "lineup", "loop")
    /\ th[t].i <= Len(lineups[th[t].arg])
    /\ nthreads < MaxThreads
    /\ IF Known(lineups[th[t].arg][th[t].i])
       THEN /\ th' = [th EXCEPT
                        ![t] = [@ EXCEPT !.i = @ + 1,
                                         !.threads = Append(@, nthreads + 1)],
                        ![nthreads + 1] =
                            NewThread("action", lineups[th[t].arg][th[t].i], t)]
            /\ nthreads' = nthreads + 1
       ELSE /\ Set(t, [Emit(th[t], RejectTag, lineups[th[t].arg][th[t].i])
                         EXCEPT !.i = Len(lineups[th[t].arg]) + 1])
            /\ UNCHANGED nthreads
    /\ UNCHANGED <<envVars, uiVars, sinkVars, resVars>>

\* One turn of `for act in actions`: Thread(...); t.start(); threads.append(t).
LineupStart(t) ==
    /\ LineupApp
    /\ Runs(t, "lineup", "loop")
    /\ th[t].i <= Len(lineups[th[t].arg])
    /\ nthreads < MaxThreads
    /\ th' = [th EXCEPT
                ![t] = [@ EXCEPT !.i = @ + 1,
                                 !.threads = Append(@, nthreads + 1)],
                ![nthreads + 1] =
                    NewThread("action", lineups[th[t].arg][th[t].i], t)]
    /\ nthreads' = nthreads + 1
    /\ UNCHANGED <<envVars, uiVars, sinkVars, resVars>>

\* run_lineup with `for t in threads: t.join()` before its last line.
LineupEndJoined(t) ==
    /\ LineupApp
    /\ Runs(t, "lineup", "loop")
    /\ th[t].i > Len(lineups[th[t].arg])
    /\ \A m \in Threads : th[m].parent = t => th[m].pc \in {"none", "done"}
    /\ Set(t, IF app = "lineups"
              THEN [Emit(th[t], "DISPATCHED", Len(th[t].threads))
                        EXCEPT !.pc = "done"]
              ELSE [th[t] EXCEPT !.pc = "done"])
    /\ UNCHANGED <<envVars, nthreads, uiVars, sinkVars, resVars>>

\* The summary counting the whitelisted members only.
LineupEndCountsKnown(t) ==
    /\ LineupApp
    /\ Runs(t, "lineup", "loop")
    /\ th[t].i > Len(lineups[th[t].arg])
    /\ Set(t, IF app = "lineups"
              THEN [Emit(th[t], "DISPATCHED",
                         Cardinality({k \in 1..Len(th[t].threads) :
                                        Known(th[th[t].threads[k]].arg)}))
                        EXCEPT !.pc = "done"]
              ELSE [th[t] EXCEPT !.pc = "done"])
    /\ UNCHANGED <<envVars, nthreads, uiVars, sinkVars, resVars>>

\* After the loop: lineups_gui writes the summary, lineuppower_gui returns.
LineupEnd(t) ==
    /\ LineupApp
    /\ Runs(t, "lineup", "loop")
    /\ th[t].i > Len(lineups[th[t].arg])
    /\ Set(t, IF app = "lineups"
              THEN [Emit(th[t], "DISPATCHED", Len(th[t].threads))
                        EXCEPT !.pc = "done"]
              ELSE [th[t] EXCEPT !.pc = "done"])
    /\ UNCHANGED <<envVars, nthreads, uiVars, sinkVars, resVars>>

\* ------------------------------------------------------------- run_single_action
Meta(t) == Whitelist[th[t].arg]

\* label = meta.get("label", action_id)
Label(t) == Meta(t).label

\* The [START] record written above the gate instead of below it.
RsaBeginStartFirst(t) ==
    /\ LineupApp
    /\ Runs(t, "action", "begin")
    /\ IF ~Known(th[t].arg)
       THEN Set(t, [Emit(th[t], RejectTag, th[t].arg) EXCEPT !.pc = "done"])
       ELSE IF NeedsConfirm(Meta(t))
            THEN Set(t, [Emit(th[t], "START", Label(t))
                            EXCEPT !.pc = "dialog", !.prompts = @ + 1])
            ELSE Set(t, [Emit(th[t], "START", Label(t)) EXCEPT !.pc = "started"])
    /\ UNCHANGED <<envVars, nthreads, uiVars, sinkVars, resVars>>

\* The rejection without its `return`: the next line reads meta, which is
\* None, and the thread ends with that exception.
RsaBeginNoReturn(t) ==
    /\ LineupApp
    /\ Runs(t, "action", "begin")
    /\ IF ~Known(th[t].arg)
       THEN Set(t, [Emit(th[t], RejectTag, th[t].arg) EXCEPT !.pc = "crashed"])
       ELSE IF NeedsConfirm(Meta(t))
            THEN Set(t, [th[t] EXCEPT !.pc = "dialog", !.prompts = @ + 1])
            ELSE Set(t, [Emit(th[t], "START", Label(t)) EXCEPT !.pc = "started"])
    /\ UNCHANGED <<envVars, nthreads, uiVars, sinkVars, resVars>>

\* The lookup and the gate: an unknown id is rejected, a dangerous action
\* opens the confirmation dialog, any other action starts.
RsaBegin(t) ==
    /\ LineupApp
    /\ Runs(t, "action", "begin")
    /\ IF ~Known(th[t].arg)
       THEN Set(t, [Emit(th[t], RejectTag, th[t].arg) EXCEPT !.pc = "done"])
       ELSE IF NeedsConfirm(Meta(t))
            THEN Set(t, [th[t] EXCEPT !.pc = "dialog", !.prompts = @ + 1])
            ELSE Set(t, [Emit(th[t], "START", Label(t)) EXCEPT !.pc = "started"])
    /\ UNCHANGED <<envVars, nthreads, uiVars, sinkVars, resVars>>

\* messagebox.askokcancel returns what the user chose.
RsaAnswer(t) ==
    /\ LineupApp
    /\ Runs(t, "action", "dialog")
    /\ \E a \in {"yes", "no"} :
          Set(t, [th[t] EXCEPT !.pc = "answered", !.answer = a])
    /\ UNCHANGED <<envVars, nthreads, uiVars, sinkVars, resVars>>

RsaConfirmed(t) ==
    /\ LineupApp
    /\ Runs(t, "action", "answered")
    /\ IF Declined(th[t].answer)
       THEN Set(t, [Emit(th[t], "CANCELLED", Label(t)) EXCEPT !.pc = "done"])
       ELSE Set(t, [Emit(th[t], "START", Label(t)) EXCEPT !.pc = "started"])
    /\ UNCHANGED <<envVars, nthreads, uiVars, sinkVars, resVars>>

\* The dry run that announces the command and launches it all the same.
RsaDryRunLaunches(t) ==
    /\ LineupApp
    /\ Runs(t, "action", "started")
    /\ DRY_RUN
    /\ Set(t, [Emit(th[t], "DRY RUN", Meta(t).cmd)
                 EXCEPT !.pc = "dry", !.launched = ps_cmd(Meta(t))])
    /\ UNCHANGED <<envVars, nthreads, uiVars, sinkVars, resVars>>

\* if DRY_RUN: the two records, then return.
RsaDryRun(t) ==
    /\ LineupApp
    /\ Runs(t, "action", "started")
    /\ DRY_RUN
    /\ Set(t, [Emit(th[t], "DRY RUN", Meta(t).cmd) EXCEPT !.pc = "dry"])
    /\ UNCHANGED <<envVars, nthreads, uiVars, sinkVars, resVars>>

RsaDryEnd(t) ==
    /\ LineupApp
    /\ Runs(t, "action", "dry")
    /\ Set(t, [Emit(th[t], "END", Label(t)) EXCEPT !.pc = "done"])
    /\ UNCHANGED <<envVars, nthreads, uiVars, sinkVars, resVars>>

IsOpener(t) == app = "lineups" /\ Meta(t).type = "opener"

\* opener = "open" if os.uname().sysname == "Darwin" else "xdg-open"
Opener(p) == IF p = "darwin" THEN Str("open") ELSE Str("xdg-open")

\* lineups_gui, type opener: the "Opening" record.
RsaOpening(t) ==
    /\ Runs(t, "action", "started")
    /\ ~DRY_RUN
    /\ IsOpener(t)
    /\ Set(t, [Emit(th[t], "OPENING", Meta(t).cmd[1]) EXCEPT !.pc = "opening"])
    /\ UNCHANGED <<envVars, nthreads, uiVars, sinkVars, resVars>>

\* The open call treated as a run: the thread goes on to read the output
\* of the opened program and to wait for it.
RsaOpenWaits(t) ==
    /\ Runs(t, "action", "opening")
    /\ \E o \in OsNames(platform) : \E p \in SysNames(o) :
        /\ platform' = p
        /\ \/ Set(t, IF p = "nt"
                     THEN [th[t] EXCEPT !.pc = "reading",
                                        !.opened = Meta(t).cmd[1]]
                     ELSE [th[t] EXCEPT !.pc = "reading",
                                        !.launched = <<Opener(p), Meta(t).cmd[1]>>])
           \/ /\ FaultsUsed < MaxFaults
              /\ \E f \in LaunchFaults :
                    Set(t, [th[t] EXCEPT !.pc = "except", !.fault = f])
    /\ UNCHANGED <<app, DRY_RUN, lineups, nthreads, uiVars, sinkVars, resVars>>

\* os.startfile(target) on Windows, Popen([opener, target]) elsewhere;
\* either returns at once or raises.
RsaOpen(t) ==
    /\ Runs(t, "action", "opening")
    /\ \E o \in OsNames(platform) : \E p \in SysNames(o) :
        /\ platform' = p
        /\ \/ Set(t, IF p = "nt"
                     THEN [th[t] EXCEPT !.pc = "opened",
                                        !.opened = Meta(t).cmd[1]]
                     ELSE [th[t] EXCEPT !.pc = "opened",
                                        !.launched = <<Opener(p), Meta(t).cmd[1]>>])
           \/ /\ FaultsUsed < MaxFaults
              /\ \E f \in LaunchFaults :
                    Set(t, [th[t] EXCEPT !.pc = "except", !.fault = f])
    /\ UNCHANGED <<app, DRY_RUN, lineups, nthreads, uiVars, sinkVars, resVars>>

\* The opener branch without its `return`: after [OK] the function goes on
\* to resolve and run the path as a command.
RsaOpenedNoReturn(t) ==
    /\ Runs(t, "action", "opened")
    /\ Set(t, [Emit(Emit(th[t], "OK", Label(t)), "RUNNING", Meta(t).cmd)
                 EXCEPT !.pc = "torun", !.cmd = Meta(t).cmd])
    /\ UNCHANGED <<envVars, nthreads, uiVars, sinkVars, resVars>>

\* After a successful open: the [OK] record, and return.
RsaOpened(t) ==
    /\ Runs(t, "action", "opened")
    /\ Set(t, [Emit(th[t], "OK", Label(t)) EXCEPT !.pc = "done"])
    /\ UNCHANGED <<envVars, nthreads, uiVars, sinkVars, resVars>>

\* lineups_gui: cmd = resolve_exec_cmd(meta), then the "Running command"
\* record.
RsaRunning(t) ==
    /\ app = "lineups"
    /\ Runs(t, "action", "started")
    /\ ~DRY_RUN
    /\ ~IsOpener(t)
    /\ IF Meta(t).type = "exe"
       THEN \E o \in OsNames(platform) :
            \E found \in WhichResults(Meta(t).cmd[1], o), exists \in BOOLEAN :
              LET cmd == resolve_exec_cmd(Meta(t), o, found, exists) IN
              /\ platform' = o
              /\ Set(t, [Emit(th[t], "RUNNING", cmd)
                            EXCEPT !.pc = "torun", !.cmd = cmd])
       ELSE LET cmd == resolve_exec_cmd(Meta(t), "posix", None, FALSE) IN
              /\ platform' = platform
              /\ Set(t, [Emit(th[t], "RUNNING", cmd)
                            EXCEPT !.pc = "torun", !.cmd = cmd])
    /\ UNCHANGED <<app, DRY_RUN, lineups, nthreads, uiVars, sinkVars, resVars>>

\* subprocess.Popen(cmd, stdout=PIPE, stderr=STDOUT, text=True): a child
\* process, or an exception.
RsaPopen(t) ==
    /\ \/ app = "lineups" /\ Runs(t, "action", "torun")
       \/ app = "power" /\ Runs(t, "action", "started") /\ ~DRY_RUN
    /\ LET cmd == IF app = "power" THEN ps_cmd(Meta(t)) ELSE th[t].cmd IN
       \/ Set(t, [th[t] EXCEPT !.pc = "reading", !.launched = cmd])
       \/ /\ FaultsUsed < MaxFaults
          /\ \E f \in LaunchFaults :
                Set(t, [th[t] EXCEPT !.pc = "except", !.fault = f])
    /\ UNCHANGED <<envVars, nthreads, uiVars, sinkVars, resVars>>

\* One turn of `for line in p.stdout: append_log(log_widget, line)`.
RsaReadLine(t) ==
    /\ LineupApp
    /\ Runs(t, "action", "reading")
    /\ LinesUsed < MaxLines
    /\ Set(t, [Emit(th[t], "LINE", th[t].nread + 1) EXCEPT !.nread = @ + 1])
    /\ UNCHANGED <<envVars, nthreads, uiVars, sinkVars, resVars>>

\* The read raises (text=True decodes what the child wrote).
RsaReadFault(t) ==
    /\ LineupApp
    /\ Runs(t, "action", "reading")
    /\ FaultsUsed < MaxFaults
    /\ \E f \in ReadFaults :
          Set(t, [th[t] EXCEPT !.pc = "except", !.fault = f])
    /\ UNCHANGED <<envVars, nthreads, uiVars, sinkVars, resVars>>

\* The child closes its output and exits: the loop ends and p.wait()
\* returns the child's exit code.
RsaWait(t) ==
    /\ LineupApp
    /\ Runs(t, "action", "reading")
    /\ \E c \in ExitCodes :
          Set(t, [th[t] EXCEPT !.pc = "exited", !.code = c])
    /\ UNCHANGED <<envVars, nthreads, uiVars, sinkVars, resVars>>

\* An automatic retry: a child that exits with a code other than 0 is
\* started again.
RsaExitRetries(t) ==
    /\ LineupApp
    /\ Runs(t, "action", "exited")
    /\ IF th[t].code # 0
       THEN Set(t, [th[t] EXCEPT
                      !.pc = IF app = "power" THEN "started" ELSE "torun"])
       ELSE Set(t, [Emit(th[t], "EXIT", th[t].code) EXCEPT !.pc = "done"])
    /\ UNCHANGED <<envVars, nthreads, uiVars, sinkVars, resVars>>

\* The exit record written without reading p.returncode: "[EXIT 0]".
RsaExitZero(t) ==
    /\ LineupApp
    /\ Runs(t, "action", "exited")
    /\ Set(t, [Emit(th[t], "EXIT", 0) EXCEPT !.pc = "done"])
    /\ UNCHANGED <<envVars, nthreads, uiVars, sinkVars, resVars>>

RsaExit(t) ==
    /\ LineupApp
    /\ Runs(t, "action", "exited")
    /\ Set(t, [Emit(th[t], "EXIT", th[t].code) EXCEPT !.pc = "done"])
    /\ UNCHANGED <<envVars, nthreads, uiVars, sinkVars, resVars>>

\* The except clauses: which message an exception gets. lineuppower_gui has
\* the one clause `except Exception`.
ErrorKind(fault) ==
    IF app = "lineups" /\ fault = "FileNotFoundError" THEN "not found"
    ELSE IF app = "lineups" /\ fault = "PermissionError" THEN "permission denied"
    ELSE "failed"

\* The try statement without its last clause, `except Exception`: only
\* the two named exceptions are caught, any other ends the thread.
RsaExceptNamedOnly(t) ==
    /\ LineupApp
    /\ Runs(t, "action", "except")
    /\ IF th[t].fault \in {"FileNotFoundError", "PermissionError"}
       THEN Set(t, [Emit(th[t], "ERROR", ErrorKind(th[t].fault))
                        EXCEPT !.pc = "done"])
       ELSE Set(t, [th[t] EXCEPT !.pc = "crashed"])
    /\ UNCHANGED <<envVars, nthreads, uiVars, sinkVars, resVars>>

\* Every exception raised in the try statement is caught by one of its
\* clauses, which writes the [ERROR] record.
RsaExcept(t) ==
    /\ LineupApp
    /\ Runs(t, "action", "except")
    /\ Set(t, [Emit(th[t], "ERROR", ErrorKind(th[t].fault)) EXCEPT !.pc = "done"])
    /\ UNCHANGED <<envVars, nthreads, uiVars, sinkVars, resVars>>

\* ------------------------------------------------------------- jarvis_runner2
\* jarvis_runner2.resolve_cmd, with found = shutil.which(first).
resolve_cmd(meta, osn, found) ==
    IF meta.type = "exe"
    THEN LET first == meta.cmd[1] IN
         IF ~HasSep(first, osn) /\ found # None
         THEN <<found>> \o Tail(meta.cmd)
         ELSE meta.cmd
    ELSE meta.cmd

\* What the command list shows. on_execute looks the selected name up
\* again, so the model also offers it a name the table lacks.
ListedCommands == DOMAIN CommandTable \cup {"NotListed"}

Meta2(t) == CommandTable[th[t].arg]

\* meta["type"] can be read: the entry has the key.
HasType(meta) == "type" \in DOMAIN meta

\* on_execute with nothing selected: showinfo, return.
J2NoSelection ==
    /\ app = "jarvis2"
    /\ UiIdle
    /\ UNCHANGED vars

\* self.status.config(...); Thread(target=self._threaded_run, ...).start()
J2Start(name, answer, prompts) ==
    /\ status' = <<"Running", name>>
    /\ th' = [th EXCEPT ![nthreads + 1] =
                [NewThread("jrun", name, UI)
                    EXCEPT !.answer = answer, !.prompts = prompts]]
    /\ nthreads' = nthreads + 1

\* on_execute, up to the confirmation dialog if the command needs one.
J2Execute(name) ==
    /\ app = "jarvis2"
    /\ UiIdle
    /\ nthreads < MaxClicks
    /\ IF name \notin DOMAIN CommandTable
       THEN UNCHANGED <<th, nthreads, uiVars>>
       ELSE IF CommandTable[name].requires_confirm
            THEN /\ uiPc' = "dialog"
                 /\ uiSel' = name
                 /\ UNCHANGED <<th, nthreads, status>>
            ELSE /\ J2Start(name, "none", 0)
                 /\ UNCHANGED <<uiPc, uiSel>>
    /\ UNCHANGED <<envVars, sinkVars, resVars>>

\* askokcancel returns: `if not ok`, the status line and return; else the
\* thread is started.
J2Answer ==
    /\ app = "jarvis2"
    /\ uiPc = "dialog"
    /\ \E a \in {"yes", "no"} :
          IF Declined(a)
          THEN /\ status' = <<"Command cancelled", uiSel>>
               /\ UNCHANGED <<th, nthreads>>
          ELSE J2Start(uiSel, a, 1)
    /\ uiPc' = "idle"
    /\ uiSel' = ""
    /\ UNCHANGED <<envVars, sinkVars, resVars>>

\* _threaded_run: the heading.
J2Begin(t) ==
    /\ Runs(t, "jrun", "begin")
    /\ Set(t, [Emit(th[t], "HEADER", th[t].arg) EXCEPT !.pc = "run"])
    /\ UNCHANGED <<envVars, nthreads, uiVars, sinkVars, resVars>>

\* run_command: if DRY_RUN, one record and return.
J2DryRun(t) ==
    /\ Runs(t, "jrun", "run")
    /\ DRY_RUN
    /\ Set(t, [Emit(th[t], "DRY RUN", Meta2(t).cmd) EXCEPT !.pc = "finish"])
    /\ UNCHANGED <<envVars, nthreads, uiVars, sinkVars, resVars>>

\* run_command, type opener: cmd = resolve_cmd(meta); the "Opening" record.
J2Opening(t) ==
    /\ Runs(t, "jrun", "run")
    /\ ~DRY_RUN
    /\ HasType(Meta2(t))
    /\ Meta2(t).type = "opener"
    /\ LET cmd == resolve_cmd(Meta2(t), "posix", None) IN
       Set(t, [Emit(th[t], "OPENING", cmd[1]) EXCEPT !.pc = "opening", !.cmd = cmd])
    /\ UNCHANGED <<envVars, nthreads, uiVars, sinkVars, resVars>>

\* os.startfile(target) on Windows. Elsewhere the opener is chosen by
\* sys.platform, and the module does not import sys: NameError.
J2Open(t) ==
    /\ Runs(t, "jrun", "opening")
    /\ \E o \in OsNames(platform) :
        /\ platform' = o
        /\ IF o = "nt"
           THEN \/ Set(t, [th[t] EXCEPT !.pc = "finish", !.opened = th[t].cmd[1]])
                \/ /\ FaultsUsed < MaxFaults
                   /\ \E f \in LaunchFaults :
                         Set(t, [th[t] EXCEPT !.pc = "except", !.fault = f])
           ELSE Set(t, [th[t] EXCEPT !.pc = "except", !.fault = "NameError"])
    /\ UNCHANGED <<app, DRY_RUN, lineups, nthreads, uiVars, sinkVars, resVars>>

\* run_command, any other type: cmd = resolve_cmd(meta); the "Executing"
\* record.
J2Executing(t) ==
    /\ Runs(t, "jrun", "run")
    /\ ~DRY_RUN
    /\ HasType(Meta2(t))
    /\ Meta2(t).type # "opener"
    /\ IF Meta2(t).type = "exe"
       THEN \E o \in OsNames(platform) :
            \E found \in WhichResults(Meta2(t).cmd[1], o) :
              LET cmd == resolve_cmd(Meta2(t), o, found) IN
              /\ platform' = o
              /\ Set(t, [Emit(th[t], "EXECUTING", cmd)
                            EXCEPT !.pc = "torun", !.cmd = cmd])
       ELSE LET cmd == resolve_cmd(Meta2(t), "posix", None) IN
              /\ platform' = platform
              /\ Set(t, [Emit(th[t], "EXECUTING", cmd)
                            EXCEPT !.pc = "torun", !.cmd = cmd])
    /\ UNCHANGED <<app, DRY_RUN, lineups, nthreads, uiVars, sinkVars, resVars>>

\* subprocess.Popen(cmd, stdout=PIPE, stderr=STDOUT, text=True, bufsize=1)
J2Popen(t) ==
    /\ Runs(t, "jrun", "torun")
    /\ \/ Set(t, [th[t] EXCEPT !.pc = "reading", !.launched = th[t].cmd])
       \/ /\ FaultsUsed < MaxFaults
          /\ \E f \in LaunchFaults :
                Set(t, [th[t] EXCEPT !.pc = "except", !.fault = f])
    /\ UNCHANGED <<envVars, nthreads, uiVars, sinkVars, resVars>>

\* One turn of `for line in proc.stdout: output_widget_insert(...)`.
J2ReadLine(t) ==
    /\ Runs(t, "jrun", "reading")
    /\ LinesUsed < MaxLines
    /\ Set(t, [Emit(th[t], "LINE", th[t].nread + 1) EXCEPT !.nread = @ + 1])
    /\ UNCHANGED <<envVars, nthreads, uiVars, sinkVars, resVars>>

J2ReadFault(t) ==
    /\ Runs(t, "jrun", "reading")
    /\ FaultsUsed < MaxFaults
    /\ \E f \in ReadFaults :
          Set(t, [th[t] EXCEPT !.pc = "except", !.fault = f])
    /\ UNCHANGED <<envVars, nthreads, uiVars, sinkVars, resVars>>

\* End of the child's output; proc.wait() returns its exit code.
J2Wait(t) ==
    /\ Runs(t, "jrun", "reading")
    /\ \E c \in ExitCodes :
          Set(t, [th[t] EXCEPT !.pc = "exited", !.code = c])
    /\ UNCHANGED <<envVars, nthreads, uiVars, sinkVars, resVars>>

\* "[Process exited with code N]"
J2Exit(t) ==
    /\ Runs(t, "jrun", "exited")
    /\ Set(t, [Emit(th[t], "EXIT", th[t].code) EXCEPT !.pc = "finish"])
    /\ UNCHANGED <<envVars, nthreads, uiVars, sinkVars, resVars>>

\* The except clauses of run_command: FileNotFoundError, then Exception.
ErrorKind2(fault) ==
    IF fault = "FileNotFoundError" THEN "not found" ELSE "failed"

\* The except clause returning from the thread function: after a launch
\* error the closing line is not written.
J2ExceptEndsRun(t) ==
    /\ Runs(t, "jrun", "except")
    /\ Set(t, [Emit(th[t], "ERROR", ErrorKind2(th[t].fault)) EXCEPT !.pc = "status"])
    /\ UNCHANGED <<envVars, nthreads, uiVars, sinkVars, resVars>>

J2Except(t) ==
    /\ Runs(t, "jrun", "except")
    /\ Set(t, [Emit(th[t], "ERROR", ErrorKind2(th[t].fault)) EXCEPT !.pc = "finish"])
    /\ UNCHANGED <<envVars, nthreads, uiVars, sinkVars, resVars>>

\* run_command: typ = meta["type"], above the try statement. An entry
\* without the key raises KeyError, which leaves run_command.
J2KeyError(t) ==
    /\ Runs(t, "jrun", "run")
    /\ ~DRY_RUN
    /\ ~HasType(Meta2(t))
    /\ Set(t, [th[t] EXCEPT !.pc = "escaped", !.fault = "KeyError"])
    /\ UNCHANGED <<envVars, nthreads, uiVars, sinkVars, resVars>>

\* _threaded_run, `except Exception as e`: the [ERROR-THREAD] record.
J2ErrorThread(t) ==
    /\ Runs(t, "jrun", "escaped")
    /\ Set(t, [Emit(th[t], "ERROR-THREAD", th[t].fault) EXCEPT !.pc = "errstatus"])
    /\ UNCHANGED <<envVars, nthreads, uiVars, sinkVars, resVars>>

\* self.status.config(text=f"Error running: {name}")
J2ErrorStatus(t) ==
    /\ Runs(t, "jrun", "errstatus")
    /\ Set(t, [th[t] EXCEPT !.pc = "done"])
    /\ status' = <<"Error running", th[t].arg>>
    /\ UNCHANGED <<envVars, nthreads, uiPc, uiSel, sinkVars, resVars>>

\* _threaded_run after run_command returned: the closing line.
J2Finished(t) ==
    /\ Runs(t, "jrun", "finish")
    /\ Set(t, [Emit(th[t], "FINISHED", th[t].arg) EXCEPT !.pc = "status"])
    /\ UNCHANGED <<envVars, nthreads, uiVars, sinkVars, resVars>>

\* self.status.config(text=f"Finished: {name}")
J2Status(t) ==
    /\ Runs(t, "jrun", "status")
    /\ Set(t, [th[t] EXCEPT !.pc = "done"])
    /\ status' = <<"Finished", th[t].arg>>
    /\ UNCHANGED <<envVars, nthreads, uiPc, uiSel, sinkVars, resVars>>

\* ------------------------------------------------------------- jarvis_runner
\* What the command list shows; execute_command does not check the name.
ListedCmds == DOMAIN COMMANDS \cup {"NotListed"}

\* The lookup falling back on the text it was given: a name that is not
\* in the table is run as a command of its own.
GetCommandOrName(name) ==
    IF name \in DOMAIN COMMANDS THEN COMMANDS[name] ELSE <<Str(name)>>

\* cmd = COMMANDS.get(cmd_name)
GetCommand(name) == IF name \in DOMAIN COMMANDS THEN COMMANDS[name] ELSE None

\* execute_command with nothing selected: showwarning, return.
JNoSelection ==
    /\ app = "jarvis"
    /\ UiIdle
    /\ UNCHANGED vars

\* execute_command: the handler writes the heading itself (kept here with
\* the run it announces), then starts run_command on a thread.
JExecute(name) ==
    /\ app = "jarvis"
    /\ UiIdle
    /\ nthreads < MaxClicks
    /\ th' = [th EXCEPT ![nthreads + 1] =
                [Emit(NewThread("cmdrun", name, UI), "HEADER", name)
                    EXCEPT !.cmd = GetCommand(name)]]
    /\ nthreads' = nthreads + 1
    /\ UNCHANGED <<envVars, uiVars, sinkVars, resVars>>

\* subprocess.Popen(cmd, ...): Popen(None) raises TypeError.
JPopen(t) ==
    /\ Runs(t, "cmdrun", "begin")
    /\ IF th[t].cmd = None
       THEN Set(t, [th[t] EXCEPT !.pc = "except", !.fault = "TypeError"])
       ELSE \/ Set(t, [th[t] EXCEPT !.pc = "reading", !.launched = th[t].cmd])
            \/ /\ FaultsUsed < MaxFaults
               /\ \E f \in LaunchFaults :
                     Set(t, [th[t] EXCEPT !.pc = "except", !.fault = f])
    /\ UNCHANGED <<envVars, nthreads, uiVars, sinkVars, resVars>>

\* One turn of `for line in proc.stdout`: normal, insert, see, disabled.
JReadLine(t) ==
    /\ Runs(t, "cmdrun", "reading")
    /\ LinesUsed < MaxLines
    /\ Set(t, [Emit(th[t], "LINE", th[t].nread + 1) EXCEPT !.nread = @ + 1])
    /\ UNCHANGED <<envVars, nthreads, uiVars, sinkVars, resVars>>

JReadFault(t) ==
    /\ Runs(t, "cmdrun", "reading")
    /\ FaultsUsed < MaxFaults
    /\ \E f \in ReadFaults :
          Set(t, [th[t] EXCEPT !.pc = "except", !.fault = f])
    /\ UNCHANGED <<envVars, nthreads, uiVars, sinkVars, resVars>>

\* End of the child's output; proc.wait() returns its exit code.
JWait(t) ==
    /\ Runs(t, "cmdrun", "reading")
    /\ \E c \in ExitCodes :
          Set(t, [th[t] EXCEPT !.pc = "exited", !.code = c])
    /\ UNCHANGED <<envVars, nthreads, uiVars, sinkVars, resVars>>

\* "[Exit code: N]"
JExit(t) ==
    /\ Runs(t, "cmdrun", "exited")
    /\ Set(t, [Emit(th[t], "EXIT", th[t].code) EXCEPT !.pc = "done"])
    /\ UNCHANGED <<envVars, nthreads, uiVars, sinkVars, resVars>>

\* except Exception as e: "[ERROR] e"
JExcept(t) ==
    /\ Runs(t, "cmdrun", "except")
    /\ Set(t, [Emit(th[t], "ERROR", "failed") EXCEPT !.pc = "done"])
    /\ UNCHANGED <<envVars, nthreads, uiVars, sinkVars, resVars>>

\* ------------------------------------------------------------- append_log
\* append_log(widget, text) is four calls on the one log widget, and a Tk
\* text widget whose state is "disabled" ignores insert. th[t].out lists the
\* texts that thread t passed to append_log; what concurrent calls leave in
\* the widget is modelled here, for writers that each call append_log
\* MaxTexts times: writer w's k-th text is <<w, k>>.
SinkIdle(w) == wpc[w] = "idle" /\ wdone[w] < MaxTexts

\* widget.configure(state="normal")
SinkNormal(w) ==
    /\ SinkIdle(w)
    /\ wstate' = "normal"
    /\ wpc' = [wpc EXCEPT ![w] = "insert"]
    /\ UNCHANGED <<progVars, resVars, wtext, wdone>>

\* widget.insert(tk.END, text)
SinkInsert(w) ==
    /\ wpc[w] = "insert"
    /\ wtext' = IF wstate = "normal"
                THEN Append(wtext, <<w, wdone[w] + 1>>)
                ELSE wtext
    /\ wpc' = [wpc EXCEPT ![w] = "see"]
    /\ UNCHANGED <<progVars, resVars, wstate, wdone>>

\* widget.see(tk.END)
SinkSee(w) ==
    /\ wpc[w] = "see"
    /\ wpc' = [wpc EXCEPT ![w] = "disable"]
    /\ UNCHANGED <<progVars, resVars, wstate, wtext, wdone>>

\* widget.configure(state="disabled"), and append_log returns.
SinkDisabled(w) ==
    /\ wpc[w] = "disable"
    /\ wstate' = "disabled"
    /\ wpc' = [wpc EXCEPT ![w] = "idle"]
    /\ wdone' = [wdone EXCEPT ![w] = @ + 1]
    /\ UNCHANGED <<progVars, resVars, wtext>>

\* ------------------------------------------------------------- resolver calls
\* The resolvers as functions of their argument and of the environment:
\* rmeta is the entry (a dict held by the table, which the resolver is
\* handed by reference), renv.onpath says whether shutil.which finds the
\* first token on PATH, renv.exists whether os.path.exists(fallback), and
\* renv.osname is os.name.
Resolvers == 1..MaxResolves

\* First tokens: a bare name, and a path that is explicit on each host.
BareName == Str("code")
ExplicitNt == <<"C:", "\\", "Tools", "\\", "Code.exe">>
ExplicitPosix == <<"/", "opt", "/", "code">>

\* The entries the resolver is tried on: every type, a command with and
\* without arguments, with and without a "fallback" key.
ResolverEntries ==
    {[type |-> ty, cmd |-> c, fallback |-> fb] :
        ty \in {"exe", "cmd", "opener"},
        c \in {<<BareName>>,
                <<BareName, Str("--new-window")>>,
                <<ExplicitNt, Str("--new-window")>>,
                <<ExplicitPosix, Str("--new-window")>>},
        fb \in {None, VSCodeFallback}}

NotResolved == [done |-> FALSE, cmd |-> <<>>]

\* shutil.which(meta["cmd"][0]) in the environment renv.
Which(meta) ==
    IF renv.onpath THEN WhichPath(meta.cmd[1], renv.osname) ELSE None

\* A resolver that stores the PATH hit in the entry it was handed
\* (meta["cmd"][0] = path) before going on: the table is changed.
ResolveExecCmdInPlace(k) ==
    /\ app = "lineups"
    /\ ~rout[k].done
    /\ LET hit == rmeta.type = "exe"
                    /\ ~HasSep(rmeta.cmd[1], renv.osname)
                    /\ Which(rmeta) # None
           meta == IF hit
                   THEN [rmeta EXCEPT !.cmd = <<Which(rmeta)>> \o Tail(@)]
                   ELSE rmeta
       IN /\ rmeta' = meta
          /\ rout' = [rout EXCEPT ![k] =
                        [done |-> TRUE,
                         cmd |-> resolve_exec_cmd(meta, renv.osname, None,
                                                  renv.exists)]]
    /\ UNCHANGED <<progVars, sinkVars, renv>>

\* One call of lineups_gui.resolve_exec_cmd(meta).
ResolveExecCmd(k) ==
    /\ app = "lineups"
    /\ ~rout[k].done
    /\ rout' = [rout EXCEPT ![k] =
                  [done |-> TRUE,
                   cmd |-> resolve_exec_cmd(rmeta, renv.osname, Which(rmeta),
                                            renv.exists)]]
    /\ UNCHANGED <<progVars, sinkVars, rmeta, renv>>

\* One call of jarvis_runner2.resolve_cmd(meta).
ResolveCmd(k) ==
    /\ app = "jarvis2"
    /\ ~rout[k].done
    /\ rout' = [rout EXCEPT ![k] =
                  [done |-> TRUE,
                   cmd |-> resolve_cmd(rmeta, renv.osname, Which(rmeta))]]
    /\ UNCHANGED <<progVars, sinkVars, rmeta, renv>>

\* ------------------------------------------------------------- specification
Writers == 1..MaxWriters

\* The program as it starts, with one of the lineup tables `tables` gives
\* for it, no thread started and no resolver call made.
AtRest(tables) ==
    /\ app \in DOMAIN tables
    /\ DRY_RUN \in (IF app = "jarvis" THEN {FALSE} ELSE BOOLEAN)
    /\ platform = "unknown"
    /\ lineups \in tables[app]
    /\ th = [t \in Threads |-> FreeThread]
    /\ nthreads = 0
    /\ uiPc = "idle"
    /\ uiSel = ""
    /\ status = <<"Ready", "">>
    /\ wstate = "disabled"
    /\ wtext = <<>>
    /\ wpc = [w \in Writers |-> "idle"]
    /\ wdone = [w \in Writers |-> 0]
    /\ rout = [k \in Resolvers |-> NotResolved]

InitWith(tables) ==
    /\ AtRest(tables)
    /\ rmeta = ACTION_WHITELIST["open_vscode"]
    /\ renv = [osname |-> "nt", onpath |-> FALSE, exists |-> FALSE]

\* jarvis_runner and jarvis_runner2 have no lineups.
NoLineups == [L1 |-> <<>>]

Init ==
    InitWith([lineups |-> LineupConfigs, power |-> PsLineupConfigs,
              jarvis2 |-> {NoLineups}, jarvis |-> {NoLineups}])

\* The programs with the lineup tables they ship with.
InitShipped ==
    InitWith([lineups |-> {LINEUPS}, power |-> {PS_LINEUPS},
              jarvis2 |-> {NoLineups}, jarvis |-> {NoLineups}])

\* lineups_gui and lineuppower_gui.
NextLineups ==
    \/ OnRunLineupNoSelection
    \/ \E name \in DOMAIN lineups : OnRunLineup(name)
    \/ \E t \in Threads :
        \/ LineupBegin(t)
        \/ LineupStart(t)
        \/ LineupEnd(t)
        \/ RsaBegin(t)
        \/ RsaAnswer(t)
        \/ RsaConfirmed(t)
        \/ RsaDryRun(t)
        \/ RsaDryEnd(t)
        \/ RsaOpening(t)
        \/ RsaOpen(t)
        \/ RsaOpened(t)
        \/ RsaRunning(t)
        \/ RsaPopen(t)
        \/ RsaReadLine(t)
        \/ RsaReadFault(t)
        \/ RsaWait(t)
        \/ RsaExit(t)
        \/ RsaExcept(t)

\* jarvis_runner2 and jarvis_runner.
NextRunners ==
    \/ J2NoSelection
    \/ \E name \in ListedCommands : J2Execute(name)
    \/ J2Answer
    \/ \E t \in Threads :
        \/ J2Begin(t)
        \/ J2DryRun(t)
        \/ J2Opening(t)
        \/ J2Open(t)
        \/ J2Executing(t)
        \/ J2Popen(t)
        \/ J2ReadLine(t)
        \/ J2ReadFault(t)
        \/ J2Wait(t)
        \/ J2Exit(t)
        \/ J2Except(t)
        \/ J2Finished(t)
        \/ J2Status(t)
        \/ J2KeyError(t)
        \/ J2ErrorThread(t)
        \/ J2ErrorStatus(t)
    \/ JNoSelection
    \/ \E name \in ListedCmds : JExecute(name)
    \/ \E t \in Threads :
        \/ JPopen(t)
        \/ JReadLine(t)
        \/ JReadFault(t)
        \/ JWait(t)
        \/ JExit(t)
        \/ JExcept(t)

Next == NextLineups \/ NextRunners

Spec == Init /\ [][Next]_vars

\* The steps of run_lineup on thread t.
run_lineup(t) == LineupBegin(t) \/ LineupStart(t) \/ LineupEnd(t)

InitLineups == Init /\ LineupApp

\* The two lineup programs where, as long as some thread can take a step
\* of run_lineup, one such step is scheduled in the end. Nothing is assumed
\* of the member threads, of the child processes or of the user at a dialog.
SpecLineupsFair ==
    /\ InitLineups
    /\ [][NextLineups]_vars
    /\ WF_vars(\E t \in Threads : run_lineup(t))

\* The steps of run_single_action on thread t, with the answer of the
\* user at its dialog and the exit of its child process.
run_single_action(t) ==
    \/ RsaBegin(t) \/ RsaAnswer(t) \/ RsaConfirmed(t)
    \/ RsaDryRun(t) \/ RsaDryEnd(t)
    \/ RsaOpening(t) \/ RsaOpen(t) \/ RsaOpened(t)
    \/ RsaRunning(t) \/ RsaPopen(t)
    \/ RsaReadLine(t) \/ RsaReadFault(t) \/ RsaWait(t) \/ RsaExit(t)
    \/ RsaExcept(t)

\* The two lineup programs where the threads of the actions are scheduled
\* fairly, every dialog is answered and every child process closes its
\* output and exits: as long as some action thread has a step to take,
\* one such step is taken in the end. Nothing is assumed of run_lineup or
\* of the Tk thread.
SpecActionsFair ==
    /\ InitLineups
    /\ [][NextLineups]_vars
    /\ WF_vars(\E t \in Threads : run_single_action(t))

SpecShipped == InitShipped /\ [][Next]_vars

\* The programs with the shipped lineup tables or with an edited one.
InitConfigured == Init \/ InitShipped

SpecConfigured == InitConfigured /\ [][Next]_vars

\* The resolvers called on one entry in one environment.
InitResolve ==
    /\ AtRest([lineups |-> {LINEUPS}, jarvis2 |-> {NoLineups}])
    /\ ~DRY_RUN
    /\ rmeta \in ResolverEntries
    /\ renv \in [osname : {"nt", "posix"}, onpath : BOOLEAN, exists : BOOLEAN]

NextResolve ==
    \E k \in Resolvers :
        \/ ResolveExecCmd(k)
        \/ ResolveCmd(k)

SpecResolve == InitResolve /\ [][NextResolve]_vars

\* The log widget under concurrent append_log calls.
InitSink ==
    /\ Init
    /\ app = "lineups"
    /\ ~DRY_RUN
    /\ lineups = [L1 |-> <<"open_taskmgr", "missing_id", "open_notepad">>]

NextSink ==
    \E w \in Writers :
        \/ SinkNormal(w)
        \/ SinkInsert(w)
        \/ SinkSee(w)
        \/ SinkDisabled(w)

SpecSink == InitSink /\ [][NextSink]_vars

\* ------------------------------------------------------------- properties
IsAction(t) == th[t].kind = "action"

\* The action of thread t needs a confirmation.
Dangerous(t) ==
    \/ IsAction(t) /\ Known(th[t].arg) /\ Meta(t).dangerous
    \/ th[t].kind = "jrun" /\ Meta2(t).requires_confirm

\* The name thread t was given is in the table of its program.
Known2(t) ==
    IF th[t].kind = "jrun" THEN th[t].arg \in DOMAIN CommandTable
    ELSE IF th[t].kind = "cmdrun" THEN th[t].arg \in DOMAIN COMMANDS
    ELSE Known(th[t].arg)

\* The command, the type and the fallback of the table entry thread t
\* was started for.
EntryCmd(t) ==
    IF th[t].kind = "jrun" THEN Meta2(t).cmd
    ELSE IF th[t].kind = "cmdrun" THEN COMMANDS[th[t].arg]
    ELSE Meta(t).cmd

EntryType(t) ==
    IF th[t].kind = "jrun" THEN Meta2(t).type
    ELSE IF th[t].kind = "cmdrun" THEN "cmd"
    ELSE Meta(t).type

EntryFallback(t) ==
    IF th[t].kind = "action" /\ app = "lineups" THEN Meta(t).fallback ELSE None

\* Thread t has started a child process or called the opener.
Spawned(t) == th[t].launched # <<>> \/ th[t].opened # <<>>

\* The dispatch of thread t has reached execution: run_single_action has
\* written [START] or gone further, on_execute has started its thread.
Executing(t) ==
    \/ IsAction(t) /\ (Has(t, "START") \/ Spawned(t) \/ th[t].cmd # <<>>)
    \/ th[t].kind = "jrun"

Last(s) == s[Len(s)]

\* C1: a dangerous action reaches execution in a dispatch only if the
\* dialog of that same dispatch was shown and answered yes.
C1_ConfirmedBeforeDanger ==
    \A t \in Threads :
        (Dangerous(t) /\ Executing(t))
            => th[t].answer = "yes" /\ th[t].prompts = 1

\* Two dispatches of dangerous actions side by side, one confirmed and
\* running its command, the other declined and ended.
C1_Witness ==
    \E t, u \in Threads :
        /\ Dangerous(t) /\ Dangerous(u)
        /\ th[t].answer = "yes" /\ th[t].launched # <<>>
        /\ th[u].answer = "no" /\ th[u].pc = "done"

\* C2: run_single_action given an id that is no key of ACTION_WHITELIST
\* writes the rejection and returns: no dialog, no [START], no command
\* resolved, no process.
C2_UnknownRejected ==
    \A t \in Threads :
        (IsAction(t) /\ ~Known(th[t].arg))
            => /\ th[t].pc \in {"begin", "done"}
               /\ th[t].pc = "begin" => th[t].out = <<>>
               /\ th[t].pc = "done" => th[t].out = <<Rec(RejectTag, th[t].arg)>>
               /\ th[t].prompts = 0
               /\ th[t].answer = "none"
               /\ th[t].cmd = <<>>
               /\ ~Spawned(t)

\* An unknown id has been rejected while a sibling of the lineup runs.
C2_Witness ==
    \E t, u \in Threads :
        /\ IsAction(t) /\ ~Known(th[t].arg) /\ th[t].pc = "done"
        /\ IsAction(u) /\ th[u].parent = th[t].parent /\ th[u].launched # <<>>

\* C3: a declined confirmation ends the dispatch with [CANCELLED] alone:
\* one such record, no [START], [EXIT] or [ERROR], no process.
C3_DeclinedIsCancelled ==
    \A t \in Threads :
        (IsAction(t) /\ th[t].answer = "no")
            => /\ th[t].pc \in {"answered", "done"}
               /\ th[t].pc = "answered" => th[t].out = <<>>
               /\ th[t].pc = "done"
                    => th[t].out = <<Rec("CANCELLED", Label(t))>>
               /\ ~Spawned(t)
               /\ th[t].fault = "none"

\* A declined action has ended, and a failed one has ended with [ERROR].
C3_Witness ==
    \E t, u \in Threads :
        /\ IsAction(t) /\ th[t].answer = "no" /\ th[t].pc = "done"
        /\ IsAction(u) /\ th[u].pc = "done" /\ Has(u, "ERROR")

IsLineup(t) == th[t].kind = "lineup"

\* The member threads of the run_lineup call on thread t.
Members(t) == {th[t].threads[k] : k \in 1..Len(th[t].threads)}

\* run_lineup on thread t has returned and so has every member.
Settled(t) ==
    /\ IsLineup(t)
    /\ th[t].pc = "done"
    /\ \A u \in Members(t) : th[u].pc = "done"

\* C4, as claimed: the reported count is the number of members that
\* passed the gate and started, leaving out unknown and declined members.
C4_CountsStartedOnly ==
    \A t \in Threads :
        (app = "lineups" /\ Settled(t))
            => Last(th[t].out).v
                 = Cardinality({u \in Members(t) : Has(u, "START")})

\* C4, amended: the reported count is the number of member ids of the
\* lineup, one thread started for each, unknown and dangerous ones alike,
\* and it is the last thing run_lineup writes.
C4_CountsEveryMember ==
    \A t \in Threads :
        (app = "lineups" /\ IsLineup(t))
            => /\ th[t].pc = "done"
                    => /\ Last(th[t].out)
                            = Rec("DISPATCHED", Len(lineups[th[t].arg]))
                       /\ Cardinality(Members(t)) = Len(lineups[th[t].arg])
               /\ Count(t, {"DISPATCHED"}) = (IF th[t].pc = "done" THEN 1 ELSE 0)

\* A lineup has been summed up and its members have ended, one of them
\* rejected or cancelled.
C4_Witness ==
    \E t \in Threads :
        /\ app = "lineups"
        /\ Settled(t)
        /\ Has(t, "DISPATCHED")
        /\ \E u, v \in Members(t) : ~Has(u, "START") /\ Has(v, "START")

\* The lineup has no member that asks for a confirmation.
Plain(ids) ==
    \A k \in 1..Len(ids) : Known(ids[k]) => ~Whitelist[ids[k]].dangerous

Unknowns(ids) == {k \in 1..Len(ids) : ~Known(ids[k])}

\* C5: a lineup of N whitelisted non-dangerous ids and M unknown ids gives
\* one thread per member in the order of the list, M rejections, one per
\* unknown id, and N executions, whatever the place of the unknown ids.
C5_RejectsAndRunsRest ==
    \A t \in Threads :
        (IsLineup(t) /\ Plain(lineups[th[t].arg]))
            => LET ids == lineups[th[t].arg] IN
               /\ Len(th[t].threads) <= Len(ids)
               /\ \A k \in 1..Len(th[t].threads) :
                     /\ th[th[t].threads[k]].kind = "action"
                     /\ th[th[t].threads[k]].arg = ids[k]
               /\ th[t].pc = "done" => Len(th[t].threads) = Len(ids)
               /\ Settled(t)
                    => /\ Cardinality({u \in Members(t) :
                              th[u].out = <<Rec(RejectTag, th[u].arg)>>})
                            = Cardinality(Unknowns(ids))
                       /\ Cardinality({u \in Members(t) :
                              Count(u, {"START"}) = 1})
                            = Len(ids) - Cardinality(Unknowns(ids))
                       /\ \A u \in Members(t) :
                              Count(u, {"START"}) + Count(u, {RejectTag}) = 1

\* Members [a, missing_id, b]: two executions and one rejection.
C5_Witness ==
    \E t \in Threads :
        /\ Settled(t)
        /\ Plain(lineups[th[t].arg])
        /\ Len(lineups[th[t].arg]) = 3
        /\ Unknowns(lineups[th[t].arg]) = {2}
        /\ Cardinality({u \in Members(t) : Has(u, "EXIT")}) = 2
        /\ Cardinality({u \in Members(t) : Has(u, RejectTag)}) = 1

\* C6: run_lineup started on a thread always returns, whatever its members
\* do: no step of it waits for a member, a child process or a dialog. From
\* a state where a run_lineup call is under way, a state follows where
\* every call made so far has returned.
C6_LineupReturns ==
    (\E t \in Threads : IsLineup(t) /\ th[t].pc # "done")
        ~> (\A t \in Threads : IsLineup(t) => th[t].pc = "done")

\* run_lineup has returned while none of its two members has ended and
\* one of them waits at its dialog.
C6_Witness ==
    \E t \in Threads :
        /\ IsLineup(t)
        /\ th[t].pc = "done"
        /\ Cardinality(Members(t)) = 2
        /\ \A u \in Members(t) : th[u].pc # "done"
        /\ \E u \in Members(t) : th[u].pc = "dialog"

\* C7: every text of an append_log call that has returned is in the log
\* widget, under every interleaving of the calls of concurrent writers.
C7_NoTextLost ==
    \A w \in Writers : \A k \in 1..wdone[w] :
        \E n \in 1..Len(wtext) : wtext[n] = <<w, k>>

\* The records that end a dispatch.
TerminalTags == {RejectTag, "CANCELLED", "OK", "EXIT", "ERROR", "END"}

\* C8: a run_single_action call that has returned has written exactly one
\* terminal record, as its last record; one still running has written none.
C8_OneTerminalRecord ==
    \A t \in Threads :
        IsAction(t)
            => /\ th[t].pc # "crashed"
               /\ Count(t, TerminalTags) = (IF th[t].pc = "done" THEN 1 ELSE 0)
               /\ th[t].pc = "done" => Last(th[t].out).tag \in TerminalTags

\* One lineup whose members ended with [OK] and with [CANCELLED].
C8_Witness ==
    \E t \in Threads :
        /\ Settled(t)
        /\ \E u, v \in Members(t) :
              /\ Last(th[u].out).tag = "OK"
              /\ Last(th[v].out).tag = "CANCELLED"

\* The terminal record of the dispatch on thread t, from what that dispatch
\* alone was given: its id, the answer at its dialog, DRY_RUN, the
\* exception raised in it, the exit code of its child.
Outcome(t) ==
    IF ~Known(th[t].arg) THEN Rec(RejectTag, th[t].arg)
    ELSE IF Meta(t).dangerous /\ th[t].answer = "no"
         THEN Rec("CANCELLED", Label(t))
    ELSE IF DRY_RUN THEN Rec("END", Label(t))
    ELSE IF th[t].fault # "none" THEN Rec("ERROR", ErrorKind(th[t].fault))
    ELSE IF IsOpener(t) THEN Rec("OK", Label(t))
    ELSE Rec("EXIT", th[t].code)

\* No exception leaves a thread, an [ERROR] record is written by the thread
\* the exception was raised in and by no other, and every dispatch ends
\* with the outcome its own inputs give.
Isolated ==
    \A t \in Threads :
        IsAction(t)
            => /\ th[t].pc # "crashed"
               /\ Has(t, "ERROR") <=> (th[t].fault # "none" /\ th[t].pc = "done")
               /\ th[t].pc = "done" => Last(th[t].out) = Outcome(t)

\* The step in which a dispatch fails or reports its failure leaves every
\* other thread as it was.
FailsAlone ==
    \A t \in Threads :
        (th'[t].fault # th[t].fault \/ Has(t, "ERROR")' # Has(t, "ERROR"))
            => \A u \in Threads \ {t} : th'[u] = th[u]

\* C9: a failure of one lineup member is that member's [ERROR] record and
\* nothing else; its siblings end as they would alone.
C9_FailuresIsolated == []Isolated /\ [][FailsAlone]_vars

\* In one lineup a member has failed and a sibling has run to its exit.
C9_Witness ==
    \E t \in Threads :
        /\ Settled(t)
        /\ \E u, v \in Members(t) :
              /\ th[u].fault # "none" /\ Last(th[u].out).tag = "ERROR"
              /\ th[v].fault = "none" /\ Last(th[v].out).tag = "EXIT"

IsWorker(t) == th[t].kind \in {"action", "jrun", "cmdrun"}

\* The thread whose stack the code of thread record t runs on.
RECURSIVE Executor(_)
Executor(t) ==
    IF t = UI \/ th[t].host = "own" THEN t ELSE Executor(th[t].parent)

\* Thread t has launched a process, or reads its output, or has waited for
\* its exit.
Blocks(t) == Spawned(t) \/ th[t].pc \in {"reading", "exited"}

\* C10: launch, read and wait happen on the worker thread started for the
\* request, never on the Tk thread, whose handler has returned.
C10_WorkOffUiThread ==
    /\ Returned(UI)
    /\ \A t \in Threads :
          (IsWorker(t) /\ Blocks(t)) => Executor(t) = t /\ Executor(t) # UI

\* Two workers read the output of their children while the Tk thread is
\* free to run a handler.
C10_Witness ==
    \E t, u \in Threads :
        /\ t # u
        /\ IsWorker(t) /\ th[t].pc = "reading" /\ th[t].nread > 0
        /\ IsWorker(u) /\ th[u].pc = "reading"
        /\ UiIdle

\* The record that announces the run of thread t's command.
StartTag(t) ==
    IF th[t].kind = "action" THEN "START"
    ELSE IF th[t].kind = "jrun" THEN "EXECUTING"
    ELSE "HEADER"

\* The places of the records with tag `tag` in what thread t has written.
Places(t, tag) == {k \in 1..Len(th[t].out) : th[t].out[k].tag = tag}

\* C11: what one run writes is in the child's order: its k-th output line
\* is its k-th line record, every line record follows the record that
\* announces the run, and the exit record follows every line, is written
\* when all lines read have been written, and carries the code wait() gave.
C11_OutputInOrder ==
    \A t \in Threads :
        IsWorker(t)
            => /\ \A k \in Places(t, "LINE") :
                    /\ th[t].out[k].v
                         = Cardinality({j \in Places(t, "LINE") : j <= k})
                    /\ \E s \in Places(t, StartTag(t)) : s < k
               /\ Cardinality(Places(t, "LINE")) = th[t].nread
               /\ \A e \in Places(t, "EXIT") :
                    /\ \A k \in Places(t, "LINE") : k < e
                    /\ \E s \in Places(t, StartTag(t)) : s < e
                    /\ th[t].out[e].v = th[t].code
                    /\ th[t].code \in ExitCodes
                    /\ th[t].launched # <<>>

\* A run has written two lines and the exit code 1 of its child while
\* another action of the lineup writes its own records.
C11_Witness ==
    \E t, u \in Threads :
        /\ t # u
        /\ IsAction(t) /\ IsAction(u) /\ th[t].parent = th[u].parent
        /\ th[t].nread = 2
        /\ Has(t, "EXIT") /\ th[t].code = 1
        /\ Has(u, "START")

\* The first token of the entry is an explicit path on this host.
ExplicitPath == HasSep(rmeta.cmd[1], renv.osname)

\* C12: for an exe entry whose first token contains a path separator both
\* resolvers return the command unchanged, whatever PATH and the
\* filesystem hold and whether or not a fallback is configured.
C12_ExplicitPathUnchanged ==
    \A k \in Resolvers :
        (rout[k].done /\ rmeta.type = "exe" /\ ExplicitPath)
            => rout[k].cmd = rmeta.cmd

\* C13: resolve_exec_cmd on an exe entry with a bare first token takes the
\* PATH hit if there is one, even when a fallback exists; else the
\* fallback if one is configured and exists; else the command as it is.
\* The arguments after the first token are kept in every case, and an
\* entry of another type is returned unchanged.
C13_PathFallbackRaw ==
    \A k \in Resolvers :
        (app = "lineups" /\ rout[k].done)
            => LET res == rout[k].cmd
                   usable == rmeta.fallback # None /\ renv.exists
               IN
               /\ Len(res) = Len(rmeta.cmd)
               /\ Tail(res) = Tail(rmeta.cmd)
               /\ rmeta.type # "exe" => res = rmeta.cmd
               /\ (rmeta.type = "exe" /\ ~ExplicitPath)
                    => /\ renv.onpath
                           => res[1] = WhichPath(rmeta.cmd[1], renv.osname)
                       /\ (~renv.onpath /\ usable) => res[1] = rmeta.fallback
                       /\ (~renv.onpath /\ ~usable) => res = rmeta.cmd

\* A bare name on PATH and an existing fallback: the call returned the
\* PATH hit followed by the argument of the command.
C13_Witness ==
    \E k \in Resolvers :
        /\ app = "lineups" /\ rout[k].done
        /\ rmeta.type = "exe" /\ ~ExplicitPath
        /\ renv.onpath /\ renv.exists /\ rmeta.fallback # None
        /\ Len(rmeta.cmd) = 2
        /\ rout[k].cmd = <<WhichPath(rmeta.cmd[1], renv.osname), rmeta.cmd[2]>>

\* The calls made so far on the entry agree.
ResolvedAlike ==
    \A j, k \in Resolvers :
        (rout[j].done /\ rout[k].done) => rout[j].cmd = rout[k].cmd

C15_LaunchFailureClassified ==
    \A t \in Threads :
        (IsAction(t) /\ th[t].pc = "done" /\ th[t].fault \in LaunchFaults)
            => /\ Places(t, "EXIT") = {}
               /\ Cardinality(Places(t, "ERROR")) = 1
               /\ Last(th[t].out).tag = "ERROR"
               /\ th[t].fault = "FileNotFoundError"
                    => Last(th[t].out).v = "not found"
               /\ th[t].fault = "PermissionError"
                    => Last(th[t].out).v = "permission denied"
               /\ th[t].fault = "OSError"
                    => Last(th[t].out).v = "failed"

\* C16: an action that is not dangerous never has the confirmation dialog
\* shown for it: its dispatch has prompted no one, is not at the dialog
\* and holds no answer, whether it runs alone or as a member of a lineup
\* and whatever the other threads are doing; the dialog of jarvis_runner2
\* is open only for a command that requires confirmation.
C16_SafeNeverPrompts ==
    /\ \A t \in Threads :
          ((IsAction(t) \/ th[t].kind = "jrun") /\ Known2(t) /\ ~Dangerous(t))
              => /\ th[t].prompts = 0
                 /\ th[t].pc \notin {"dialog", "answered"}
                 /\ th[t].answer = "none"
    /\ uiPc = "dialog"
          => /\ uiSel \in DOMAIN CommandTable
             /\ CommandTable[uiSel].requires_confirm

\* An action that is not dangerous has spawned its target unprompted
\* while a dangerous member of the same lineup is at its dialog.
C16_Witness ==
    \E t, u \in Threads :
        /\ IsAction(t) /\ Known(th[t].arg) /\ ~Dangerous(t)
        /\ Spawned(t) /\ th[t].prompts = 0
        /\ IsAction(u) /\ th[u].parent = th[t].parent
        /\ Dangerous(u) /\ th[u].pc = "dialog"

\* C17: each dispatch of a dangerous action asks for confirmation exactly
\* once, and before anything else: until the answer is acted on the
\* dispatch has written no record, resolved no command and spawned
\* nothing, and the first record it writes after the answer is [START]
\* or [CANCELLED]. Two dispatches of the same action each ask once.
C17_PromptOncePerDispatch ==
    \A t \in Threads :
        (IsAction(t) /\ Dangerous(t))
            => /\ th[t].prompts = (IF th[t].pc = "begin" THEN 0 ELSE 1)
               /\ th[t].pc \in {"begin", "dialog", "answered"}
                    => /\ th[t].out = <<>>
                       /\ th[t].cmd = <<>>
                       /\ ~Spawned(t)
               /\ th[t].pc \notin {"begin", "dialog", "answered"}
                    => /\ th[t].answer \in {"yes", "no"}
                       /\ th[t].out # <<>>
                       /\ th[t].out[1].tag \in {"START", "CANCELLED"}

\* The same lineup was dispatched twice and its dangerous action is at
\* the dialog in both dispatches at once, each having asked once.
C17_Witness ==
    \E t, u \in Threads :
        /\ IsAction(t) /\ IsAction(u) /\ Dangerous(t)
        /\ th[t].arg = th[u].arg
        /\ th[t].parent # th[u].parent
        /\ th[th[t].parent].arg = th[th[u].parent].arg
        /\ th[t].pc = "dialog" /\ th[u].pc = "dialog"
        /\ th[t].prompts = 1 /\ th[u].prompts = 1

\* The first token of the entry's command, or what a resolver may put in
\* its place: the PATH hit for it, or the fallback the entry configures.
FirstTokens(t) ==
    {EntryCmd(t)[1]}
        \cup {WhichPath(EntryCmd(t)[1], o) : o \in {"nt", "posix"}}
        \cup (IF EntryFallback(t) = None THEN {} ELSE {EntryFallback(t)})

\* C18: whatever a thread has spawned or opened comes from the table entry
\* of the name it was given: an opened path is the entry's path, and the
\* arguments of a child process are the entry's command with at most the
\* first token replaced by the PATH hit or the configured fallback (for
\* lineuppower_gui, the entry's command handed to powershell). A name
\* that is not in the table has spawned and opened nothing.
C18_OnlyTableCommands ==
    \A t \in Threads :
        (IsWorker(t) /\ Spawned(t))
            => /\ Known2(t)
               /\ th[t].opened # <<>>
                    => /\ EntryType(t) = "opener"
                       /\ th[t].opened = EntryCmd(t)[1]
                       /\ th[t].launched = <<>>
               /\ th[t].launched # <<>>
                    => IF app = "power"
                       THEN th[t].launched = ps_cmd(Meta(t))
                       ELSE IF EntryType(t) = "opener"
                       THEN /\ Len(th[t].launched) = 2
                            /\ th[t].launched[1] \in {Str("open"), Str("xdg-open")}
                            /\ th[t].launched[2] = EntryCmd(t)[1]
                       ELSE /\ Len(th[t].launched) = Len(EntryCmd(t))
                            /\ Tail(th[t].launched) = Tail(EntryCmd(t))
                            /\ th[t].launched[1] \in FirstTokens(t)

\* A lineup held an id that is not in the table and an exe action: the
\* first has ended without spawning, the second runs its fallback
\* program with the argument of its entry.
C18_Witness ==
    \E t, u \in Threads :
        /\ IsAction(t) /\ ~Known(th[t].arg) /\ th[t].pc = "done" /\ ~Spawned(t)
        /\ IsAction(u) /\ th[u].parent = th[t].parent /\ Known(th[u].arg)
        /\ app = "lineups" /\ Meta(u).fallback # None
        /\ th[u].launched = <<Meta(u).fallback>> \o Tail(Meta(u).cmd)

\* C19: an opener action never reads the output of what it opened, never
\* waits for it and never writes an [EXIT] record; once it has ended, its
\* last record is [OK] if the open call returned and [ERROR] if the call
\* raised, in which case nothing was opened.
C19_OpenerFireAndForget ==
    \A t \in Threads :
        (IsAction(t) /\ Known(th[t].arg) /\ IsOpener(t))
            => /\ th[t].pc \notin {"torun", "reading", "exited"}
               /\ th[t].nread = 0
               /\ Places(t, "EXIT") = {} /\ Places(t, "LINE") = {}
               /\ (th[t].pc = "done" /\ Has(t, "OPENING"))
                    => IF th[t].fault = "none"
                       THEN /\ Spawned(t)
                            /\ Last(th[t].out) = Rec("OK", Label(t))
                       ELSE /\ ~Spawned(t)
                            /\ Last(th[t].out).tag = "ERROR"
                            /\ Places(t, "OK") = {}

\* An opener has ended with [OK] while the other action of its lineup,
\* started with it, has not ended.
C19_Witness ==
    \E t, u \in Threads :
        /\ IsAction(t) /\ Known(th[t].arg) /\ IsOpener(t)
        /\ th[t].pc = "done" /\ Spawned(t)
        /\ Last(th[t].out) = Rec("OK", Label(t))
        /\ IsAction(u) /\ th[u].parent = th[t].parent
        /\ th[u].pc \notin {"done", "begin"}

\* Every thread started for an action has ended, with a terminal record
\* as the last thing it wrote.
AllEnded ==
    \A t \in Threads :
        IsAction(t) => th[t].pc = "done" /\ Last(th[t].out).tag \in TerminalTags

\* An action thread that has not ended has a step of its own to take,
\* whatever the other threads are doing.
NoWaiting ==
    \A t \in Threads :
        (IsAction(t) /\ th[t].pc # "done") => ENABLED run_single_action(t)

\* A thread that has spawned its child or opened its path keeps it and
\* never goes back to a place from which it would spawn again.
SpawnsOnce ==
    \A t \in Threads :
        (IsAction(t) /\ Spawned(t))
            => /\ th[t]'.launched = th[t].launched
               /\ th[t]'.opened = th[t].opened
               /\ th[t]'.pc \in {"reading", "exited", "opened", "except", "done"}

\* C20: with fair scheduling of the action threads, dialogs answered and
\* children exiting, every thread started for an action ends with its
\* terminal record; meanwhile no action thread waits for another, and a
\* dispatch spawns at most one child.
C20_RunsToCompletion ==
    /\ (\E t \in Threads : IsAction(t) /\ th[t].pc # "done") ~> AllEnded
    /\ []NoWaiting
    /\ [][SpawnsOnce]_vars

\* A dangerous action was confirmed, ran its child, read a line and ended
\* with the exit code 1, while the other action of its lineup has not
\* taken its first step.
C20_Witness ==
    \E t, u \in Threads :
        /\ IsAction(t) /\ Dangerous(t) /\ th[t].pc = "done"
        /\ th[t].nread > 0 /\ th[t].code = 1
        /\ Last(th[t].out).tag = "EXIT"
        /\ IsAction(u) /\ th[u].parent = th[t].parent /\ th[u].pc = "begin"

\* The lineup table in use is the one the program ships with.
Shipped ==
    \/ app = "lineups" /\ lineups = LINEUPS
    \/ app = "power" /\ lineups = PS_LINEUPS

\* Every member id of every lineup of the table in use is a key of the
\* action table.
MembersKnown ==
    \A name \in DOMAIN lineups :
        \A k \in 1..Len(lineups[name]) : Known(lineups[name][k])

\* C21: with the shipped tables every member id of every lineup is a key
\* of ACTION_WHITELIST, no thread was started for an id that is not, and
\* no rejected-id record was written; and no step of the program changes
\* the lineup table.
C21_ShippedTablesClosed ==
    /\ [](Shipped
            => /\ MembersKnown
               /\ \A t \in Threads :
                    /\ IsAction(t) => Known(th[t].arg)
                    /\ Places(t, RejectTag) = {})
    /\ [][lineups' = lineups]_vars

\* The shipped "Lineup 2" has run: its three actions were dispatched and
\* have ended, each with its own records and none rejected.
C21_Witness ==
    \E t \in Threads :
        /\ Shipped /\ IsLineup(t) /\ th[t].pc = "done"
        /\ Len(th[t].threads) = 3
        /\ \A u \in Members(t) :
              th[u].pc = "done" /\ Has(u, "START") /\ Places(u, RejectTag) = {}

\* The tags of the records thread t has written, in order.
Tags(t) == [k \in 1..Len(th[t].out) |-> th[t].out[k].tag]

\* The dispatch of thread t has passed the gate and the thread has ended.
PassedAndEnded(t) ==
    /\ th[t].pc = "done"
    /\ \/ th[t].kind = "jrun"
       \/ /\ IsAction(t) /\ Known(th[t].arg)
          /\ Dangerous(t) => th[t].answer = "yes"

\* With DRY_RUN set nothing is spawned or opened, and the gate is applied
\* as without it: an unknown id is rejected, a dangerous action has
\* prompted once, a declined one has written [CANCELLED] only.
DryAndGated ==
    DRY_RUN
        => \A t \in Threads :
             IsWorker(t)
                => /\ ~Spawned(t)
                   /\ th[t].pc \notin {"torun", "opening", "opened", "reading",
                                        "exited", "except"}
                   /\ Dangerous(t) /\ th[t].pc # "begin" => th[t].prompts = 1
                   /\ (IsAction(t) /\ th[t].pc = "done" /\ ~Known(th[t].arg))
                        => Tags(t) = <<RejectTag>>
                   /\ (IsAction(t) /\ th[t].pc = "done" /\ Known(th[t].arg)
                         /\ Dangerous(t) /\ th[t].answer # "yes")
                        => Tags(t) = <<"CANCELLED">>

C23_OpenerOffWindows ==
    \A t \in Threads :
        (/\ th[t].kind = "jrun" /\ HasType(Meta2(t))
         /\ Meta2(t).type = "opener"
         /\ Has(t, "OPENING") /\ platform # "nt"
         /\ th[t].pc \in {"finish", "status", "done"})
            => /\ Len(th[t].launched) = 2
               /\ th[t].launched[1] \in {Str("open"), Str("xdg-open")}
               /\ th[t].launched[2] = Meta2(t).cmd[1]
               /\ Places(t, "ERROR") = {}

IsRun(t) == th[t].kind = "jrun"

\* An exception has left run_command on thread t: it was raised and no
\* except clause of run_command has written it as [ERROR].
Escaped(t) ==
    /\ th[t].fault # "none"
    /\ ~Has(t, "ERROR")
    /\ th[t].pc \in {"escaped", "errstatus", "done"}

\* The heading is the first record of a run and the closing line its
\* last; a run that has ended wrote the closing line unless an exception
\* left run_command, and then it wrote [ERROR-THREAD] and no closing line.
Bracketed ==
    \A t \in Threads :
        IsRun(t)
            => /\ th[t].out # <<>> => th[t].out[1] = Rec("HEADER", th[t].arg)
               /\ Places(t, "HEADER") \subseteq {1}
               /\ \A e \in Places(t, "FINISHED") :
                    e = Len(th[t].out) /\ th[t].out[e].v = th[t].arg
               /\ Has(t, "ERROR-THREAD") => Escaped(t) /\ ~Has(t, "FINISHED")
               /\ th[t].pc = "done"
                    => IF Escaped(t)
                       THEN Last(th[t].out).tag = "ERROR-THREAD"
                       ELSE Last(th[t].out) = Rec("FINISHED", th[t].arg)

\* The step that ends a run sets the status line: "Finished" after the
\* closing line, "Error running" after [ERROR-THREAD]; and the status
\* line is set to either text by no other step.
StatusFollows ==
    /\ \A t \in Threads :
          (IsRun(t) /\ th[t].pc # "done" /\ th[t]'.pc = "done")
              => status' = (IF Has(t, "ERROR-THREAD")
                            THEN <<"Error running", th[t].arg>>
                            ELSE <<"Finished", th[t].arg>>)
    /\ (status' # status /\ status'[1] \in {"Finished", "Error running"})
          => \E t \in Threads :
                /\ IsRun(t) /\ th[t].pc # "done" /\ th[t]'.pc = "done"
                /\ status'[2] = th[t].arg
                /\ status'[1] = "Error running" <=> Escaped(t)

\* C24: every run of jarvis_runner2 writes '=== Running: name ===' before
\* any other record and '=== Finished: name ===' after all of them, and
\* then sets the status 'Finished: name', on every path through
\* run_command: dry run, opener, exit of the child, launch error written
\* as [ERROR]. [ERROR-THREAD] and the status 'Error running' come only
\* after an exception has left run_command, and then without the closing
\* line.
C24_RunBracketed == []Bracketed /\ [][StatusFollows]_vars

\* A run whose launch failed has written its heading, the [ERROR] record
\* and the closing line, and the status line says it has finished.
C24_Witness ==
    \E t \in Threads :
        /\ IsRun(t) /\ th[t].pc = "done"
        /\ th[t].fault = "FileNotFoundError"
        /\ Tags(t) = <<"HEADER", "EXECUTING", "ERROR", "FINISHED">>
        /\ status = <<"Finished", th[t].arg>>
====
